---- MODULE Spec2Model ----
(***************************************************************************)
(* A model of src/main.py: the daily GCP cost report.                      *)
(*                                                                         *)
(*   Spec       get_gcp_cost as a state machine: authorization, the query, *)
(*              the aggregation loop over the result rows, the anchor      *)
(*              (main) message and the per-project thread messages.        *)
(*   SpecTable  build_table applied to bounded inputs.                     *)
(*                                                                         *)
(* Text is a sequence of one-character strings, so that padding, joining   *)
(* and splitting are computed and not assumed.  Costs are Python floats:   *)
(* they are modelled as integers (the unit is one cent) that every         *)
(* addition rounds to MantBits significant bits, ties to even, as IEEE 754 *)
(* does with 53 bits.                                                      *)
(***************************************************************************)
EXTENDS Integers, Sequences, FiniteSets, TLC

VARIABLES
    \* ---- get_gcp_cost ----
    pc,                       \* position in get_gcp_cost
    SEND_PROJECT_BREAKDOWN,   \* module option (line 15)
    SEND_THREAD_DETAILS,      \* module option (line 16)
    SLACK_CHANNEL_ID,         \* module option (line 10)
    consumed,                 \* the rows the result iterator has yielded so far
    overall_total_yesterday,
    overall_total_day_before,
    projects,                 \* dict in insertion order: seq of [key, rows, total_yesterday, total_day_before]
    sku_agg,                  \* dict in insertion order: seq of [key, yesterday, day_before]
    project_totals,           \* dict in insertion order: seq of [key, total_yesterday, total_day_before]
    sku_rows,                 \* rows given to build_table for table 1
    project_rows,             \* rows given to build_table for table 2
    overall_sku_delta_str,
    overall_proj_delta_str,
    main_ts,                  \* what the anchor send returned
    sorted_projects_by_cost,  \* the list the thread loop iterates
    thread_idx,               \* number of thread-loop iterations done
    proj,                     \* the thread loop's current project
    proj_delta_str,           \* the thread loop's current delta of the TOTAL row
    posted,                   \* the chat.postMessage requests made, in order
    ret,                      \* what get_gcp_cost returned
    \* ---- build_table ----
    tb_pc,
    tb_header_names,
    tb_rows,
    tb_overall_label,
    tb_overall_cost,
    tb_overall_delta,
    tb_col_widths,            \* col_widths when build_table returns
    tb_out                    \* the text build_table returned

mainvars == <<pc, SEND_PROJECT_BREAKDOWN, SEND_THREAD_DETAILS, SLACK_CHANNEL_ID,
              consumed, overall_total_yesterday, overall_total_day_before,
              projects, sku_agg, project_totals, sku_rows, project_rows,
              overall_sku_delta_str, overall_proj_delta_str, main_ts,
              sorted_projects_by_cost, thread_idx, proj, proj_delta_str,
              posted, ret>>
tablevars == <<tb_pc, tb_header_names, tb_rows, tb_overall_label,
               tb_overall_cost, tb_overall_delta, tb_col_widths, tb_out>>
vars == <<mainvars, tablevars>>

----------------------------------------------------------------------------
(* Bounds of the model                                                     *)

\* longest result set of the query
MaxRecords == 2
\* significant bits a float keeps (53 in the program)
MantBits == 2
\* most rows given to build_table in SpecTable
MaxRows == 32

----------------------------------------------------------------------------
(* Text                                                                    *)

NL == "\n"

Min(a, b) == IF a < b THEN a ELSE b
Max(a, b) == IF a > b THEN a ELSE b

Spaces(n) == [i \in 1..n |-> " "]

\* str.ljust(w) / str.rjust(w): pad with spaces up to w, never cut
ljust(s, w) == IF Len(s) >= w THEN s ELSE s \o Spaces(w - Len(s))
rjust(s, w) == IF Len(s) >= w THEN s ELSE Spaces(w - Len(s)) \o s

\* sep.join(parts)
RECURSIVE join(_, _)
join(sep, parts) ==
    IF parts = <<>> THEN <<>>
    ELSE IF Len(parts) = 1 THEN parts[1]
    ELSE parts[1] \o sep \o join(sep, Tail(parts))

\* text.split("\n"): the pieces between the newlines (always at least one)
RECURSIVE split_lines(_)
split_lines(text) ==
    IF \A i \in 1..Len(text) : text[i] # NL THEN <<text>>
    ELSE LET k == CHOOSE i \in 1..Len(text) :
                      text[i] = NL /\ \A j \in 1..(i - 1) : text[j] # NL
         IN <<SubSeq(text, 1, k - 1)>> \o split_lines(SubSeq(text, k + 1, Len(text)))

Digit(d) == <<"0", "1", "2", "3", "4", "5", "6", "7", "8", "9">>[d + 1]

\* str(n) of a natural number
RECURSIVE NatStr(_)
NatStr(n) == IF n < 10 THEN <<Digit(n)>> ELSE NatStr(n \div 10) \o <<Digit(n % 10)>>

\* f"{n}" of an integer
IntStr(n) == IF n < 0 THEN <<"-">> \o NatStr(-n) ELSE NatStr(n)

\* f"{cost:.2f}" of a cost of c cents
fmt_cost(c) == NatStr(c \div 100) \o <<".">> \o <<Digit((c % 100) \div 10), Digit(c % 10)>>

NA == <<"N", "/", "A">>
PERCENT == <<"%">>

----------------------------------------------------------------------------
(* build_table (lines 65-103)                                              *)

max_lines == 34
header_lines == 2
footer_lines == 2
max_data_rows_no_footer == max_lines - header_lines
max_data_rows == max_lines - header_lines - footer_lines

RECURSIVE SeqSum(_)
SeqSum(s) == IF s = <<>> THEN 0 ELSE Head(s) + SeqSum(Tail(s))

RECURSIVE SeqMax(_)
SeqMax(s) == IF Len(s) = 1 THEN s[1] ELSE Max(Head(s), SeqMax(Tail(s)))

\* lines 72-78: the widths are taken over the rows as given, before any cut
col_widths(header_names, rows) ==
    [i \in 1..Len(header_names) |->
        IF rows = <<>> THEN Len(header_names[i])
        ELSE SeqMax(<<Len(header_names[i])>> \o [k \in 1..Len(rows) |-> Len(rows[k][i])])]

\* line 80
header_line(header_names, widths) ==
    join(<<" ", " ">>, [i \in 1..Len(header_names) |-> ljust(header_names[i], widths[i])])

\* line 81
separator(widths) == [i \in 1..(SeqSum(widths) + 2 * (Len(widths) - 1)) |-> "-"]

\* lines 85-86
kept_rows_last(rows) ==
    IF Len(rows) > max_data_rows
    THEN SubSeq(rows, Len(rows) - max_data_rows + 1, Len(rows)) ELSE rows
kept_rows(rows) == IF Len(rows) > max_data_rows THEN SubSeq(rows, 1, max_data_rows) ELSE rows

\* lines 88-89
data_line(row, widths) ==
    join(<<" ", " ">>, [i \in 1..Len(row) |->
        IF i = 1 THEN ljust(row[i], widths[i]) ELSE rjust(row[i], widths[i])])

\* lines 93-95
overall_line(header_names, widths, overall_label, overall_cost, overall_delta) ==
    ljust(overall_label, widths[1]) \o <<" ", " ">> \o rjust(overall_cost, widths[2])
      \o (IF Len(header_names) > 2
          THEN <<" ", " ">> \o rjust(overall_delta, widths[3]) ELSE <<>>)

\* lines 82-98: the lines before the final cut
table_lines(header_names, rows, overall_label, overall_cost, overall_delta) ==
    LET w == col_widths(header_names, rows)
        kept == kept_rows(rows)
    IN <<header_line(header_names, w), separator(w)>>
         \o [k \in 1..Len(kept) |-> data_line(kept[k], w)]
         \o <<separator(w),
              overall_line(header_names, w, overall_label, overall_cost, overall_delta)>>

\* lines 101-103
build_table(header_names, rows, overall_label, overall_cost, overall_delta) ==
    LET all == table_lines(header_names, rows, overall_label, overall_cost, overall_delta)
        cut == IF Len(all) > max_lines THEN SubSeq(all, 1, max_lines) ELSE all
    IN join(<<NL>>, cut)

----------------------------------------------------------------------------
(* SpecTable: build_table on bounded inputs                                *)

SKU == <<"S", "K", "U">>
COST == <<"C", "o", "s", "t">>
DELTA == <<"D", "e", "l", "t", "a">>
PROJECT == <<"P", "r", "o", "j", "e", "c", "t">>
OVERALL == <<"O", "V", "E", "R", "A", "L", "L">>
TOTAL == <<"T", "O", "T", "A", "L">>

\* a label wider than every header and every other cell
WideLabel == [i \in 1..12 |-> "w"]
WideCost == <<"1", "0", "0", "0", "0", "0", ".", "0", "0">>

\* The k-th of n rows: its label names k; row `wide` (0: none) has wide cells.
TableRow(k, wide, ncols) ==
    LET label == IF k = wide THEN WideLabel \o NatStr(k) ELSE <<"r">> \o NatStr(k)
        cost == IF k = wide THEN WideCost ELSE fmt_cost(k)
    IN IF ncols = 2 THEN <<label, cost>> ELSE <<label, cost, NatStr(k) \o PERCENT>>

TableHeaders == {<<SKU, COST, DELTA>>, <<PROJECT, COST>>}

TableInit ==
    /\ tb_pc = "call"
    /\ tb_header_names \in TableHeaders
    /\ \E n \in 0..MaxRows : \E wide \in 0..n :
          tb_rows = [k \in 1..n |-> TableRow(k, wide, Len(tb_header_names))]
    /\ tb_overall_label \in {OVERALL, TOTAL}
    /\ tb_overall_cost = fmt_cost(1234)
    /\ tb_overall_delta \in {NA}
    /\ tb_col_widths = <<>>
    /\ tb_out = <<>>

TableIdle ==
    /\ tb_pc = "idle"
    /\ tb_header_names = <<>>
    /\ tb_rows = <<>>
    /\ tb_overall_label = <<>>
    /\ tb_overall_cost = <<>>
    /\ tb_overall_delta = <<>>
    /\ tb_col_widths = <<>>
    /\ tb_out = <<>>

BuildTable ==
    /\ tb_pc = "call"
    /\ tb_col_widths' = col_widths(tb_header_names, tb_rows)
    /\ tb_out' = build_table(tb_header_names, tb_rows, tb_overall_label,
                             tb_overall_cost, tb_overall_delta)
    /\ tb_pc' = "returned"
    /\ UNCHANGED <<tb_header_names, tb_rows, tb_overall_label, tb_overall_cost,
                   tb_overall_delta>>

----------------------------------------------------------------------------
(* Python floats                                                           *)

\* the spacing of the representable values at the magnitude of x
RECURSIVE FloatUlp(_)
FloatUlp(x) == IF x < 2 ^ MantBits THEN 1 ELSE 2 * FloatUlp(x \div 2)

\* round to nearest representable value, ties to the even mantissa
FloatRound(x) ==
    LET u == FloatUlp(x)
        lo == (x \div u) * u
        r == x - lo
    IN IF 2 * r < u THEN lo
       ELSE IF 2 * r > u THEN lo + u
       ELSE IF (lo \div u) % 2 = 0 THEN lo ELSE lo + u

\* a += b on floats
float_add(a, b) == FloatRound(a + b)

\* Python 3 round(n / d) for d > 0: nearest integer, ties to even
py_round(n, d) ==
    LET q == n \div d
        r == n - q * d
    IN IF 2 * r < d THEN q
       ELSE IF 2 * r > d THEN q + 1
       ELSE IF q % 2 = 0 THEN q ELSE q + 1

\* BigQuery ROUND(n / d) for d > 0: nearest integer, ties away from zero
sql_round(n, d) ==
    IF n >= 0 THEN (2 * n + d) \div (2 * d) ELSE -((2 * (-n) + d) \div (2 * d))

\* float("12.34"): the cents of a cost string with two decimals
RECURSIVE DigitsValue(_)
DigitsValue(s) ==
    IF s = <<>> THEN 0
    ELSE LET c == s[Len(s)]
             rest == DigitsValue(SubSeq(s, 1, Len(s) - 1))
         IN IF c = "." THEN rest
            ELSE 10 * rest + (CHOOSE d \in 0..9 : Digit(d) = c)
parse_cost(s) == DigitsValue(s)

----------------------------------------------------------------------------
(* The query result (lines 129-160)                                        *)

\* An optional value is <<>> (None / NULL) or <<v>>.
\* the project ids, in the order ORDER BY a.project_id gives them
ProjectIds == <<<<"p">>, <<"q", "q">>>>
Projects == {ProjectIds[i] : i \in 1..Len(ProjectIds)}
ProjectRank(p) == CHOOSE i \in 1..Len(ProjectIds) : ProjectIds[i] = p

LongPrefix == [i \in 1..45 |-> "a"]
\* two names that differ only beyond character 45, and a short one
ServiceNames == {LongPrefix \o <<"x">>, LongPrefix \o <<"y">>, <<"s">>}

\* the <<yesterday_cost, day_before_cost>> of a row, in cents: the day before
\* is NULL, zero, more than yesterday, and the same as yesterday
CostPairs == {<<1, <<>>>>, <<4, <<0>>>>, <<1, <<4>>>>, <<4, <<4>>>>}

\* lines 145-148: delta_percentage of a result row
sql_delta(y, d) ==
    IF d = <<>> THEN <<>>
    ELSE IF d[1] = 0 THEN <<>>
    ELSE <<sql_round(100 * (y - d[1]), d[1])>>

ResultRow(p, s, y, d) ==
    [project_id |-> p, service_name |-> s, yesterday_cost |-> y,
     day_before_cost |-> d, delta_percentage |-> sql_delta(y, d)]

ResultRows ==
    {ResultRow(p, s, c[1], c[2]) : p \in Projects, s \in ServiceNames, c \in CostPairs}

----------------------------------------------------------------------------
(* Aggregation (lines 163-194)                                             *)

\* a dict in insertion order is a sequence of entries with a key field
HasKey(d, k) == \E i \in 1..Len(d) : d[i].key = k
IndexOf(d, k) == CHOOSE i \in 1..Len(d) : d[i].key = k

\* (x or 0)
or_zero(x) == IF x = <<>> THEN 0 ELSE x[1]

\* line 176
trim_service(name) == SubSeq(name, 1, Min(45, Len(name)))

\* line 179
record_delta_str(r) ==
    IF r.delta_percentage = <<>> THEN NA ELSE IntStr(r.delta_percentage[1]) \o PERCENT

\* lines 174-182
add_to_projects(d, r) ==
    LET d0 == IF HasKey(d, r.project_id) THEN d
              ELSE Append(d, [key |-> r.project_id, rows |-> <<>>,
                              total_yesterday |-> 0, total_day_before |-> 0])
        i == IndexOf(d0, r.project_id)
        row == <<trim_service(r.service_name), fmt_cost(r.yesterday_cost),
                 record_delta_str(r)>>
    IN [d0 EXCEPT ![i].rows = Append(@, row),
                  ![i].total_yesterday = float_add(@, r.yesterday_cost),
                  ![i].total_day_before = float_add(@, or_zero(r.day_before_cost))]

\* lines 185-188
add_to_sku_agg(d, r) ==
    LET service == trim_service(r.service_name)
        d0 == IF HasKey(d, service) THEN d
              ELSE Append(d, [key |-> service, yesterday |-> 0, day_before |-> 0])
        i == IndexOf(d0, service)
    IN [d0 EXCEPT ![i].yesterday = float_add(@, r.yesterday_cost),
                  ![i].day_before = float_add(@, or_zero(r.day_before_cost))]

\* lines 191-194
add_to_project_totals_first_only(d, r) ==
    IF HasKey(d, r.project_id) THEN d
    ELSE Append(d, [key |-> r.project_id,
                    total_yesterday |-> r.yesterday_cost,
                    total_day_before |-> or_zero(r.day_before_cost)])
add_to_project_totals(d, r) ==
    LET d0 == IF HasKey(d, r.project_id) THEN d
              ELSE Append(d, [key |-> r.project_id,
                              total_yesterday |-> 0, total_day_before |-> 0])
        i == IndexOf(d0, r.project_id)
    IN [d0 EXCEPT ![i].total_yesterday = float_add(@, r.yesterday_cost),
                  ![i].total_day_before = float_add(@, or_zero(r.day_before_cost))]

----------------------------------------------------------------------------
(* Sorting and the rows of the tables (lines 197-233, 268-280)             *)

\* sorted(items, key=..., reverse=True): descending by key, and stable:
\* items with equal keys keep their order.  keys[i] is the key of items[i].
RECURSIVE InsertDesc(_, _, _)
InsertDesc(order, i, keys) ==
    IF order = <<>> THEN <<i>>
    ELSE IF keys[Head(order)] >= keys[i]
         THEN <<Head(order)>> \o InsertDesc(Tail(order), i, keys)
         ELSE <<i>> \o order
RECURSIVE DescOrder(_, _)
DescOrder(n, keys) == IF n = 0 THEN <<>> ELSE InsertDesc(DescOrder(n - 1, keys), n, keys)

sorted_desc_ties_reversed(items, keys) ==
    LET n == Len(items)
        rev == [k \in 1..n |-> n + 1 - k]
        order == DescOrder(n, [k \in 1..n |-> keys[rev[k]]])
    IN [k \in 1..n |-> items[rev[order[k]]]]
sorted_desc_unsorted(items, keys) == items
sorted_desc(items, keys) ==
    LET order == DescOrder(Len(items), keys)
    IN [k \in 1..Len(items) |-> items[order[k]]]

\* lines 201-205, 208-212, 222-226, 229-233, 273-277
aggregate_delta_str_of_today(today, previous) ==
    IF previous > 0 /\ today > 0
    THEN IntStr(py_round(100 * (today - previous), today)) \o PERCENT
    ELSE NA
aggregate_delta_str(today, previous) ==
    IF previous > 0
    THEN IntStr(py_round(100 * (today - previous), previous)) \o PERCENT
    ELSE NA

\* lines 197-206
build_sku_rows(agg) ==
    LET sorted_sku == sorted_desc(agg, [k \in 1..Len(agg) |-> agg[k].yesterday])
    IN [k \in 1..Len(sorted_sku) |->
          <<sorted_sku[k].key, fmt_cost(sorted_sku[k].yesterday),
            aggregate_delta_str(sorted_sku[k].yesterday, sorted_sku[k].day_before)>>]

\* lines 218-227
build_project_rows(totals) ==
    LET sorted_projects ==
            sorted_desc(totals, [k \in 1..Len(totals) |-> totals[k].total_yesterday])
    IN [k \in 1..Len(sorted_projects) |->
          <<sorted_projects[k].key, fmt_cost(sorted_projects[k].total_yesterday),
            aggregate_delta_str(sorted_projects[k].total_yesterday,
                                sorted_projects[k].total_day_before)>>]

\* lines 235-240
strip_overall(project_table_text_full) ==
    LET lines == split_lines(project_table_text_full)
    IN IF Len(lines) >= 2 THEN join(<<NL>>, SubSeq(lines, 1, Len(lines) - 2))
       ELSE project_table_text_full

----------------------------------------------------------------------------
(* send_slack_message (lines 20-62)                                        *)

GCP_COST_REPORT == <<"G", "C", "P", " ", "C", "o", "s", "t", " ", "R", "e", "p", "o", "r", "t">>
ERR_AUTH == <<"E", "r", "r", "o", "r", " ", "a", "u", "t", "h", "o", "r", "i", "z", "i", "n", "g", " ", "w", "i", "t", "h", " ", "B", "i", "g", "Q", "u", "e", "r", "y", ":", " ">>
ERR_QUERY == <<"E", "r", "r", "o", "r", " ", "e", "x", "e", "c", "u", "t", "i", "n", "g", " ", "B", "i", "g", "Q", "u", "e", "r", "y", " ", "q", "u", "e", "r", "y", ":", " ">>
DATE_PREFIX == <<"*", "D", "a", "t", "e", ":", "*", " ">>
PROJECT_PREFIX == <<"P", "r", "o", "j", "e", "c", "t", ":", " ">>
\* the backquote character (SANY does not lex a backquote inside a string)
BACKQUOTE == "backquote"
FENCE == <<BACKQUOTE, BACKQUOTE, BACKQUOTE>>

\* what a request to Slack can do: answer ok, answer with an error, or raise
\* requests.exceptions.RequestException
SinkOutcomes == {"ok", "not_ok", "exception"}
\* line 27: conversations.open is called for a user id only
OpenOutcomes(channel_id) == IF channel_id[1] = "U" THEN SinkOutcomes ELSE {"not_called"}

\* a channel id, and a user id (it starts with "U")
CHANNEL == <<"C", "1">>
USER == <<"U", "1">>
\* The options explored: [breakdown, thread details, channel].  Every
\* combination with a channel id, and a user id without thread details.
Configurations ==
    {<<b, t, CHANNEL>> : b \in BOOLEAN, t \in BOOLEAN}
      \cup {<<b, FALSE, USER>> : b \in BOOLEAN}
\* the channel conversations.open answers with
DM_CHANNEL == <<"D", "1">>

\* lines 25-39
final_channel(channel_id, open_out) ==
    IF channel_id[1] = "U" /\ open_out = "ok" THEN DM_CHANNEL ELSE channel_id

\* lines 41-47: thread_ts is in the payload only when it is not None
payload(channel, blocks, fallback_text, thread_ts) ==
    IF thread_ts # <<>>
    THEN [channel |-> channel, blocks |-> blocks, text |-> fallback_text,
          thread_ts |-> thread_ts[1]]
    ELSE [channel |-> channel, blocks |-> blocks, text |-> fallback_text]

\* lines 49-59: the ts of the new message, or None.  The request that makes
\* the log n long gets ts n when Slack accepts it.
send_result(post_out, n) == IF post_out = "ok" THEN <<n>> ELSE <<>>

\* One call of send_slack_message, the n-th: the request it makes, what it
\* returns, and whether it raises.  Lines 60-62 catch the exception of the
\* request, so it never raises.
send_slack_message_uncaught(blocks, fallback_text, thread_ts, channel_id, open_out, post_out, n) ==
    [payload |-> payload(final_channel(channel_id, open_out), blocks,
                         fallback_text, thread_ts),
     returned |-> send_result(post_out, n),
     raised |-> post_out = "exception"]
send_slack_message(blocks, fallback_text, thread_ts, channel_id, open_out, post_out, n) ==
    [payload |-> payload(final_channel(channel_id, open_out), blocks,
                         fallback_text, thread_ts),
     returned |-> send_result(post_out, n),
     raised |-> FALSE]

\* what the log keeps of a call
Request(sent) == [payload |-> sent.payload, returned |-> sent.returned]

section(text) == [type |-> "section", text |-> text]

----------------------------------------------------------------------------
(* get_gcp_cost (lines 106-301)                                            *)

\* the text of an exception, and the date two days ago: given by the environment
EXC_TEXT == <<"e">>
cost_date == <<"d", "a", "y">>

Init ==
    /\ pc = "authorize"
    /\ \E c \in Configurations :
          /\ SEND_PROJECT_BREAKDOWN = c[1]
          /\ SEND_THREAD_DETAILS = c[2]
          /\ SLACK_CHANNEL_ID = c[3]
    /\ consumed = <<>>
    /\ overall_total_yesterday = 0
    /\ overall_total_day_before = 0
    /\ projects = <<>>
    /\ sku_agg = <<>>
    /\ project_totals = <<>>
    /\ sku_rows = <<>>
    /\ project_rows = <<>>
    /\ overall_sku_delta_str = <<>>
    /\ overall_proj_delta_str = <<>>
    /\ main_ts = <<>>
    /\ sorted_projects_by_cost = <<>>
    /\ thread_idx = 0
    /\ proj = <<>>
    /\ proj_delta_str = <<>>
    /\ posted = <<>>
    /\ ret = <<>>
    /\ TableIdle

aggregates == <<consumed, overall_total_yesterday, overall_total_day_before,
                projects, sku_agg, project_totals>>
options == <<SEND_PROJECT_BREAKDOWN, SEND_THREAD_DETAILS, SLACK_CHANNEL_ID>>
report == <<sku_rows, project_rows, overall_sku_delta_str, overall_proj_delta_str,
            main_ts, sorted_projects_by_cost, thread_idx, proj, proj_delta_str>>

\* lines 119-123 and 297-301: log, send the error text, return "Error".
\* log is the requests made so far.
ErrorExit_silent(log, err_prefix) ==
    /\ posted' = log
    /\ ret' = <<"Error">>
    /\ pc' = "done"
ErrorExit(log, err_prefix) ==
    /\ \E open_out \in OpenOutcomes(SLACK_CHANNEL_ID), post_out \in SinkOutcomes :
          posted' = Append(log, Request(
              send_slack_message(<<section(err_prefix \o EXC_TEXT)>>,
                                 err_prefix \o EXC_TEXT, <<>>, SLACK_CHANNEL_ID,
                                 open_out, post_out, Len(log) + 1)))
    /\ ret' = <<"Error">>
    /\ pc' = "done"

\* lines 116-118
Authorize ==
    /\ pc = "authorize"
    /\ pc' = "query"
    /\ UNCHANGED <<options, aggregates, report, posted, ret, tablevars>>

\* lines 119-123
AuthorizeFails ==
    /\ pc = "authorize"
    /\ ErrorExit(posted, ERR_AUTH)
    /\ UNCHANGED <<options, aggregates, report, tablevars>>

\* lines 159-160
RunQuery ==
    /\ pc = "query"
    /\ pc' = "iterate"
    /\ UNCHANGED <<options, aggregates, report, posted, ret, tablevars>>

\* lines 159-160 raise
QueryFails ==
    /\ pc = "query"
    /\ ErrorExit(posted, ERR_QUERY)
    /\ UNCHANGED <<options, aggregates, report, tablevars>>

\* line 138 (GROUP BY) and line 155 (ORDER BY a.project_id, yesterday_cost
\* DESC): may row r follow the rows the iterator has yielded?
may_follow(rows, r) ==
    /\ \A k \in 1..Len(rows) :
          ~(rows[k].project_id = r.project_id /\ rows[k].service_name = r.service_name)
    /\ rows # <<>> =>
          LET last == rows[Len(rows)]
          IN \/ ProjectRank(last.project_id) < ProjectRank(r.project_id)
             \/ /\ last.project_id = r.project_id
                /\ last.yesterday_cost >= r.yesterday_cost

\* lines 170-194: one iteration of the loop over the result
ConsumeRow ==
    /\ pc = "iterate"
    /\ Len(consumed) < MaxRecords
    /\ \E r \in ResultRows :
          /\ may_follow(consumed, r)
          /\ consumed' = Append(consumed, r)
          /\ overall_total_yesterday' = float_add(overall_total_yesterday, r.yesterday_cost)
          /\ overall_total_day_before' =
                float_add(overall_total_day_before, or_zero(r.day_before_cost))
          /\ projects' = add_to_projects(projects, r)
          /\ sku_agg' = add_to_sku_agg(sku_agg, r)
          /\ project_totals' = add_to_project_totals(project_totals, r)
    /\ UNCHANGED <<pc, options, report, posted, ret, tablevars>>

\* line 170: the iterator raises
IterationFails ==
    /\ pc = "iterate"
    /\ ErrorExit(posted, ERR_QUERY)
    /\ UNCHANGED <<options, aggregates, report, tablevars>>

\* lines 255-262
main_blocks(sku_table_text, project_table_text) ==
    <<[type |-> "context", text |-> DATE_PREFIX \o cost_date],
      section(FENCE \o <<NL>> \o sku_table_text \o <<NL>> \o FENCE)>>
    \o (IF SEND_PROJECT_BREAKDOWN
        THEN <<section(FENCE \o <<NL>> \o project_table_text \o <<NL>> \o FENCE)>>
        ELSE <<>>)

\* lines 196-266 and 296-301: the result is exhausted; build the two tables,
\* send the main message, and go on to the thread loop or return
SendMain ==
    /\ pc = "iterate"
    /\ LET overall_delta == aggregate_delta_str(overall_total_yesterday,
                                                overall_total_day_before)
           s_rows == build_sku_rows(sku_agg)
           p_rows == build_project_rows(project_totals)
           sku_table_text == build_table(<<SKU, COST, DELTA>>, s_rows, OVERALL,
                                         fmt_cost(overall_total_yesterday), overall_delta)
           project_table_text ==
               strip_overall(build_table(<<PROJECT, COST, DELTA>>, p_rows, OVERALL,
                                         fmt_cost(overall_total_yesterday), overall_delta))
           loop == IF SEND_THREAD_DETAILS
                   THEN sorted_desc(projects,
                            [k \in 1..Len(projects) |-> projects[k].total_yesterday])
                   ELSE <<>>
       IN /\ sku_rows' = s_rows
          /\ project_rows' = p_rows
          /\ overall_sku_delta_str' = overall_delta
          /\ overall_proj_delta_str' = overall_delta
          /\ \E open_out \in OpenOutcomes(SLACK_CHANNEL_ID), post_out \in SinkOutcomes :
                LET sent == send_slack_message(
                                main_blocks(sku_table_text, project_table_text),
                                GCP_COST_REPORT, <<>>, SLACK_CHANNEL_ID,
                                open_out, post_out, Len(posted) + 1)
                IN IF sent.raised
                   THEN /\ ErrorExit(Append(posted, Request(sent)), ERR_QUERY)
                        /\ UNCHANGED <<main_ts, sorted_projects_by_cost>>
                   ELSE /\ posted' = Append(posted, Request(sent))
                        /\ main_ts' = sent.returned
                        /\ sorted_projects_by_cost' = loop
                        /\ IF loop = <<>>
                           THEN pc' = "done" /\ ret' = <<"Success">>
                           ELSE pc' = "threads" /\ ret' = ret
    /\ UNCHANGED <<options, aggregates, thread_idx, proj, proj_delta_str, tablevars>>

\* lines 269-294 and 296-301: one iteration of the thread loop; after the
\* last one the function returns
SendThread ==
    /\ pc = "threads"
    /\ thread_idx < Len(sorted_projects_by_cost)
    /\ LET data == sorted_projects_by_cost[thread_idx + 1]
           delta == aggregate_delta_str(data.total_yesterday, data.total_day_before)
           proj_rows == sorted_desc(data.rows,
                            [k \in 1..Len(data.rows) |-> parse_cost(data.rows[k][2])])
           proj_table_text == build_table(<<SKU, COST, DELTA>>, proj_rows, TOTAL,
                                          fmt_cost(data.total_yesterday), delta)
           blocks == <<[type |-> "header", text |-> PROJECT_PREFIX \o data.key],
                       section(FENCE \o <<NL>> \o proj_table_text \o <<NL>> \o FENCE)>>
       IN /\ proj' = data.key
          /\ proj_delta_str' = delta
          /\ \E open_out \in OpenOutcomes(SLACK_CHANNEL_ID), post_out \in SinkOutcomes :
                LET sent == send_slack_message(blocks, GCP_COST_REPORT, main_ts,
                                SLACK_CHANNEL_ID, open_out, post_out, Len(posted) + 1)
                IN IF sent.raised
                   THEN ErrorExit(Append(posted, Request(sent)), ERR_QUERY)
                   ELSE /\ posted' = Append(posted, Request(sent))
                        /\ IF thread_idx + 1 = Len(sorted_projects_by_cost)
                           THEN pc' = "done" /\ ret' = <<"Success">>
                           ELSE pc' = pc /\ ret' = ret
    /\ thread_idx' = thread_idx + 1
    /\ UNCHANGED <<options, aggregates, sku_rows, project_rows, overall_sku_delta_str,
                   overall_proj_delta_str, main_ts, sorted_projects_by_cost, tablevars>>

Next ==
    \/ Authorize
    \/ AuthorizeFails
    \/ RunQuery
    \/ QueryFails
    \/ ConsumeRow
    \/ IterationFails
    \/ SendMain
    \/ SendThread

Spec == Init /\ [][Next]_vars

MainIdle ==
    /\ pc = "idle"
    /\ SEND_PROJECT_BREAKDOWN = FALSE
    /\ SEND_THREAD_DETAILS = FALSE
    /\ SLACK_CHANNEL_ID = <<>>
    /\ consumed = <<>>
    /\ overall_total_yesterday = 0
    /\ overall_total_day_before = 0
    /\ projects = <<>>
    /\ sku_agg = <<>>
    /\ project_totals = <<>>
    /\ sku_rows = <<>>
    /\ project_rows = <<>>
    /\ overall_sku_delta_str = <<>>
    /\ overall_proj_delta_str = <<>>
    /\ main_ts = <<>>
    /\ sorted_projects_by_cost = <<>>
    /\ thread_idx = 0
    /\ proj = <<>>
    /\ proj_delta_str = <<>>
    /\ posted = <<>>
    /\ ret = <<>>

InitTable == MainIdle /\ TableInit

NextTable == BuildTable /\ UNCHANGED mainvars

SpecTable == InitTable /\ [][NextTable]_vars

----------------------------------------------------------------------------
(* Reading the state                                                       *)

IsAnchor(m) == m.payload.blocks[1].type = "context"
IsThread(m) == m.payload.blocks[1].type = "header"
IsErrorMessage(m) ==
    Len(m.payload.blocks) = 1 /\ m.payload.blocks[1].type = "section"

\* the project a thread message names in its header block
ThreadProject(m) ==
    SubSeq(m.payload.blocks[1].text, Len(PROJECT_PREFIX) + 1,
           Len(m.payload.blocks[1].text))

ThreadMessages == {j \in 1..Len(posted) : IsThread(posted[j])}
AnchorSent == Len(posted) >= 1 /\ IsAnchor(posted[1])

ConsumedProjects == {consumed[k].project_id : k \in 1..Len(consumed)}

\* the position in the stream at which a project / a trimmed service name
\* was first encountered
FirstSeenProject(p) ==
    CHOOSE k \in 1..Len(consumed) :
        /\ consumed[k].project_id = p
        /\ \A j \in 1..(k - 1) : consumed[j].project_id # p
FirstSeenService(s) ==
    CHOOSE k \in 1..Len(consumed) :
        /\ trim_service(consumed[k].service_name) = s
        /\ \A j \in 1..(k - 1) : trim_service(consumed[j].service_name) # s

ProjectToday(p) == projects[IndexOf(projects, p)].total_yesterday

Abs(x) == IF x < 0 THEN -x ELSE x

\* the true sums of the costs consumed
TrueToday == SeqSum([k \in 1..Len(consumed) |-> consumed[k].yesterday_cost])
TruePrevious == SeqSum([k \in 1..Len(consumed) |-> or_zero(consumed[k].day_before_cost)])

SkuSumToday == SeqSum([k \in 1..Len(sku_agg) |-> sku_agg[k].yesterday])
SkuSumPrevious == SeqSum([k \in 1..Len(sku_agg) |-> sku_agg[k].day_before])
ProjectSumToday == SeqSum([k \in 1..Len(project_totals) |-> project_totals[k].total_yesterday])
ProjectSumPrevious ==
    SeqSum([k \in 1..Len(project_totals) |-> project_totals[k].total_day_before])

\* the detail view and the project-wide view carry the same totals
DetailMatchesProjectTotals ==
    /\ Len(projects) = Len(project_totals)
    /\ \A k \in 1..Len(projects) :
          /\ projects[k].key = project_totals[k].key
          /\ projects[k].total_yesterday = project_totals[k].total_yesterday
          /\ projects[k].total_day_before = project_totals[k].total_day_before

\* x is the true sum t of n terms up to the rounding of n - 1 additions:
\* |x - t| <= ((1 + u)^(n-1) - 1) * t with u = 2^(-MantBits)
WithinRounding(x, t, n) ==
    IF n = 0 THEN x = 0
    ELSE LET U == 2 ^ MantBits
         IN Abs(x - t) * (U ^ (n - 1)) <= ((U + 1) ^ (n - 1) - U ^ (n - 1)) * t

\* d is n / p rounded to the nearest integer, ties to the even one
NearestEven(d, n, p) ==
    /\ 2 * Abs(n - d * p) <= p
    /\ 2 * Abs(n - d * p) = p => d % 2 = 0

\* str renders the delta of the totals today and previous
DeltaFromTotals(str, today, previous) ==
    IF previous = 0 THEN str = NA
    ELSE LET q == (100 * (today - previous)) \div previous
         IN \E d \in {q, q + 1} :
               /\ NearestEven(d, 100 * (today - previous), previous)
               /\ str = IntStr(d) \o PERCENT

\* the text of a line before its first space
FirstField(line) ==
    LET sp == {i \in 1..Len(line) : line[i] = " "}
    IN IF sp = {} THEN line
       ELSE SubSeq(line, 1, (CHOOSE i \in sp : \A j \in sp : i <= j) - 1)

IsDashes(line) == Len(line) > 0 /\ \A i \in 1..Len(line) : line[i] = "-"

\* the first fields of the lines of the returned table
TableOutFields ==
    LET lines == split_lines(tb_out)
    IN [k \in 1..Len(lines) |-> FirstField(lines[k])]

\* the lines, given their first fields, that carry the label of an input row
DataLines(fields) ==
    {k \in 1..Len(fields) : \E r \in 1..Len(tb_rows) : fields[k] = tb_rows[r][1]}

----------------------------------------------------------------------------
(* The claims                                                              *)

\* C1: when the data source fails (client.query, result() or the iteration
\* raises), get_gcp_cost returns "Error" having called send_slack_message
\* exactly once, with the error text; no anchor and no thread message is
\* sent, and nothing is sent once it has returned.
C1_DataSourceFailure ==
    [][/\ (QueryFails \/ IterationFails) =>
            /\ pc' = "done"
            /\ ret' = <<"Error">>
            /\ Len(posted') = 1
            /\ IsErrorMessage(posted'[1])
            /\ posted'[1].payload.text = ERR_QUERY \o EXC_TEXT
            /\ ~IsAnchor(posted'[1]) /\ ~IsThread(posted'[1])
       /\ pc = "done" => posted' = posted]_vars

\* C1 witness: the iteration raised after a row had been consumed
C1_Witness ==
    /\ pc = "done"
    /\ ret = <<"Error">>
    /\ consumed # <<>>
    /\ Len(posted) = 1
    /\ posted[1].payload.text = ERR_QUERY \o EXC_TEXT

\* C2: with thread details enabled, every per-project reply comes after the
\* anchor send has returned (its result, a ts or None, is main_ts), and the
\* replies are made in descending order of the project totals, projects with
\* equal totals in first-seen order.
C2_ThreadOrder ==
    SEND_THREAD_DETAILS =>
        \A j \in ThreadMessages :
            /\ AnchorSent
            /\ j > 1
            /\ main_ts = posted[1].returned
            /\ \A i \in ThreadMessages :
                  i < j =>
                    LET pi == ThreadProject(posted[i])
                        pj == ThreadProject(posted[j])
                    IN /\ ProjectToday(pi) >= ProjectToday(pj)
                       /\ ProjectToday(pi) = ProjectToday(pj)
                             => FirstSeenProject(pi) < FirstSeenProject(pj)

\* C2 witness: two replies were sent for projects with equal totals
C2_Witness ==
    /\ pc = "done"
    /\ SEND_THREAD_DETAILS
    /\ Cardinality(ThreadMessages) = 2
    /\ \A p \in ConsumedProjects, q \in ConsumedProjects : ProjectToday(p) = ProjectToday(q)

\* C3: build_table returns at most 34 lines of which at most 30 are data
\* rows; given more than 30 rows, the data rows are the first 30 of the
\* input, in input order.
C3_TableBounds ==
    tb_pc = "returned" =>
        LET fields == TableOutFields
            data == DataLines(fields)
        IN /\ Len(fields) <= 34
           /\ Cardinality(data) <= 30
           /\ Len(tb_rows) > 30 =>
                 /\ data = 3..32
                 /\ \A k \in 1..30 : fields[k + 2] = tb_rows[k][1]

\* C3 witness: build_table has returned for more than 30 rows
C3_Witness == tb_pc = "returned" /\ Len(tb_rows) > 30

\* C4: with thread details enabled and the query successful, the thread loop
\* goes on whatever the sends return: while get_gcp_cost has not returned a
\* project is left whose reply it makes next, and when it returns it returns
\* "Success" having made exactly one reply request for every project of the
\* result.
C4_RepliesForEveryProject ==
    (SEND_THREAD_DETAILS /\ AnchorSent) =>
        /\ pc \in {"threads", "done"}
        /\ pc = "threads" =>
              /\ thread_idx < Len(sorted_projects_by_cost)
              /\ Cardinality(ThreadMessages) = thread_idx
        /\ pc = "done" =>
              /\ ret = <<"Success">>
              /\ Cardinality(ThreadMessages) = Cardinality(ConsumedProjects)
              /\ \A p \in ConsumedProjects :
                    Cardinality({j \in ThreadMessages : ThreadProject(posted[j]) = p}) = 1

\* C4 witness: the anchor send and the first reply failed, the second reply
\* was made all the same
C4_Witness ==
    /\ pc = "done"
    /\ ret = <<"Success">>
    /\ Len(posted) = 3
    /\ IsAnchor(posted[1]) /\ posted[1].returned = <<>>
    /\ IsThread(posted[2]) /\ posted[2].returned = <<>>
    /\ IsThread(posted[3])

\* C5 as stated: after any prefix of the stream the service-wide totals, the
\* project-wide totals and the overall total have the same sum, today and
\* previous, and the detail view carries the project-wide totals.
C5_ExactSums ==
    /\ SkuSumToday = ProjectSumToday
    /\ ProjectSumToday = overall_total_yesterday
    /\ SkuSumPrevious = ProjectSumPrevious
    /\ ProjectSumPrevious = overall_total_day_before
    /\ DetailMatchesProjectTotals

\* C5 amended: after any prefix of n rows the detail view carries exactly the
\* project-wide totals; the sum of the service-wide totals, the sum of the
\* project-wide totals and the overall total are each the true sum of the
\* costs consumed up to the rounding of the float additions made.
C5_SumsWithinRounding ==
    /\ DetailMatchesProjectTotals
    /\ WithinRounding(SkuSumToday, TrueToday, Len(consumed))
    /\ WithinRounding(ProjectSumToday, TrueToday, Len(consumed))
    /\ WithinRounding(overall_total_yesterday, TrueToday, Len(consumed))
    /\ WithinRounding(SkuSumPrevious, TruePrevious, Len(consumed))
    /\ WithinRounding(ProjectSumPrevious, TruePrevious, Len(consumed))
    /\ WithinRounding(overall_total_day_before, TruePrevious, Len(consumed))

\* C5 witness: two rows of one project were consumed and an addition rounded
C5_Witness ==
    /\ Len(consumed) >= 2
    /\ Len(projects) = 1
    /\ Len(sku_agg) = 2
    /\ overall_total_yesterday # TrueToday

\* C6: every aggregate row (service-wide, project-wide, OVERALL, TOTAL)
\* renders the delta of its accumulated totals: "N/A" when the accumulated
\* previous cost is 0, else round((today - previous) / previous * 100)
\* followed by "%".
C6_DeltaFromTotals ==
    AnchorSent =>
        /\ Len(sku_rows) = Len(sku_agg)
        /\ \A k \in 1..Len(sku_rows) :
              LET e == sku_agg[IndexOf(sku_agg, sku_rows[k][1])]
              IN DeltaFromTotals(sku_rows[k][3], e.yesterday, e.day_before)
        /\ Len(project_rows) = Len(project_totals)
        /\ \A k \in 1..Len(project_rows) :
              LET e == project_totals[IndexOf(project_totals, project_rows[k][1])]
              IN DeltaFromTotals(project_rows[k][3], e.total_yesterday, e.total_day_before)
        /\ DeltaFromTotals(overall_sku_delta_str, overall_total_yesterday,
                           overall_total_day_before)
        /\ DeltaFromTotals(overall_proj_delta_str, overall_total_yesterday,
                           overall_total_day_before)
        /\ thread_idx > 0 =>
              LET e == projects[IndexOf(projects, proj)]
              IN DeltaFromTotals(proj_delta_str, e.total_yesterday, e.total_day_before)

\* C6 witness: a service-wide row sums two rows of the result and renders a
\* percentage that is the delta of neither
C6_Witness ==
    /\ AnchorSent
    /\ \E k \in 1..Len(sku_rows) :
          /\ sku_rows[k][3] # NA
          /\ Cardinality({j \in 1..Len(consumed) :
                 trim_service(consumed[j].service_name) = sku_rows[k][1]}) = 2
          /\ \A j \in 1..Len(consumed) :
                 trim_service(consumed[j].service_name) = sku_rows[k][1]
                    => record_delta_str(consumed[j]) # sku_rows[k][3]

\* C7: the service-wide rows given to build_table are in non-increasing order
\* of accumulated cost, services with equal cost in the order in which their
\* names were first encountered.
C7_SkuRowsOrder ==
    AnchorSent =>
        /\ Len(sku_rows) = Len(sku_agg)
        /\ \A i \in 1..Len(sku_rows), j \in 1..Len(sku_rows) :
              i < j =>
                LET ci == sku_agg[IndexOf(sku_agg, sku_rows[i][1])].yesterday
                    cj == sku_agg[IndexOf(sku_agg, sku_rows[j][1])].yesterday
                IN /\ ci >= cj
                   /\ ci = cj => FirstSeenService(sku_rows[i][1])
                                    < FirstSeenService(sku_rows[j][1])

\* C7 witness: two services with different costs were reported
C7_Witness ==
    /\ AnchorSent
    /\ Len(sku_rows) = 2
    /\ sku_agg[1].yesterday < sku_agg[2].yesterday

\* C8 as stated: every column is as wide as its header or its longest cell
\* among the kept rows (the first 30), whichever is longer.
C8_WidthsFromKeptRows ==
    tb_pc = "returned" =>
        \A i \in 1..Len(tb_header_names) :
            LET kept == Min(Len(tb_rows), 30)
                lens == {Len(tb_header_names[i])}
                          \cup {Len(tb_rows[k][i]) : k \in 1..kept}
            IN /\ tb_col_widths[i] \in lens
               /\ \A n \in lens : n <= tb_col_widths[i]

\* C9: the last two lines of the returned table are the separator and the
\* summary line with the given label, and no line is lost to the final cut:
\* the table has 4 lines more than the rows kept.
C9_SummaryLast ==
    tb_pc = "returned" =>
        LET lines == split_lines(tb_out)
            n == Len(lines)
        IN /\ n = 4 + Min(Len(tb_rows), 30)
           /\ IsDashes(lines[n - 1])
           /\ FirstField(lines[n]) = tb_overall_label

\* C9 witness: a TOTAL table was returned for more than 30 rows
C9_Witness ==
    /\ tb_pc = "returned"
    /\ Len(tb_rows) > 30
    /\ tb_overall_label = TOTAL
    /\ LET lines == split_lines(tb_out)
       IN Len(lines) = 34 /\ FirstField(lines[34]) = TOTAL

\* C10 as stated: every per-project detail message is posted with a thread
\* identifier, the one the anchor send returned.
C10_RepliesThreaded ==
    \A j \in ThreadMessages :
        /\ "thread_ts" \in DOMAIN posted[j].payload
        /\ <<posted[j].payload.thread_ts>> = posted[1].returned

====
